---- MODULE Spec2Model ----
(***************************************************************************)
(* Model of file-manipulation/sampler.py and file-manipulation/finder.py.  *)
(*                                                                         *)
(* Python values are represented as follows:                               *)
(*   str            a sequence of one-character strings                    *)
(*   list of str    a sequence of str (a CSV row, a header)                *)
(*   None           <<>> where an optional str is expected, Some(s)=<<s>>  *)
(*   datetime       the minute of the hour (the timestamp format of the    *)
(*                  model is "%M")                                         *)
(*   timedelta      a number of minutes                                    *)
(*   a call         [exc |-> "None", val |-> v] when it returns v,         *)
(*                  [exc |-> e, val |-> <<>>] when it raises e             *)
(***************************************************************************)
EXTENDS Integers, Sequences, FiniteSets, TLC

VARIABLES pc, input, result, queue, out, run

vars == <<pc, input, result, queue, out, run>>

(***************************************************************************)
(* Bounds of the model.                                                    *)
(***************************************************************************)
MaxRows == 3
MaxTime == 3
MaxDelta == 2
MaxConds == 2
MaxTokens == 2
MaxFiles == 2

(***************************************************************************)
(* Python primitives.                                                      *)
(***************************************************************************)
None == <<>>
Some(s) == <<s>>

\* F(e), with e evaluated once, before F is applied (the value of a local
\* variable of the code)
Bind(e, F(_)) == CHOOSE y \in {F(x) : x \in {e}} : TRUE

Ok(v) == [exc |-> "None", val |-> v]
Raise(e) == [exc |-> e, val |-> <<>>]

\* the state of the main loop of a run, before the loop and in the models of
\* the functions alone
NoRun == [header_written |-> FALSE, csv_header |-> <<>>, csv_matches |-> <<>>,
          opened |-> FALSE, n |-> 0, log |-> <<>>, warnings |-> <<>>]

Digits == <<"0", "1", "2", "3", "4", "5", "6", "7", "8", "9">>

IsDigit(c) == \E d \in DOMAIN Digits : Digits[d] = c
DigitVal(c) == (CHOOSE d \in DOMAIN Digits : Digits[d] = c) - 1

\* s[:-1]
ButLast(s) == IF Len(s) = 0 THEN s ELSE SubSeq(s, 1, Len(s) - 1)

\* row[a:b] for a, b >= 0
Slice(row, a, b) == SubSeq(row, a + 1, IF b < Len(row) THEN b ELSE Len(row))

\* datetime.datetime.strptime(cell, "%M"): one or two digits, below 60
strptime(cell) ==
    IF Len(cell) \in {1, 2} /\ \A k \in DOMAIN cell : IsDigit(cell[k])
    THEN LET n == IF Len(cell) = 1 THEN DigitVal(cell[1])
                  ELSE 10 * DigitVal(cell[1]) + DigitVal(cell[2])
         IN IF n < 60 THEN Ok(n) ELSE Raise("ValueError")
    ELSE Raise("ValueError")

(***************************************************************************)
(* sampler.py: sample_file                                                 *)
(***************************************************************************)
\* NextSampleDue with <= for <: the boundary itself is sampled
NextSampleDue_Inclusive(samples, timestamp_delta, timestamp) ==
    samples[Len(samples)].timestamp + timestamp_delta <= timestamp

\* EmptySamples as a list that outlives the call, as a default argument or
\* a module-level list would
EmptySamples_Shared ==
    IF Len(run.log) = 0 THEN <<>> ELSE run.log[Len(run.log)].samples

\* line 59: samples = list()
EmptySamples == <<>>

\* line 78: samples[-1][0] + timestamp_delta < timestamp
NextSampleDue(samples, timestamp_delta, timestamp) ==
    samples[Len(samples)].timestamp + timestamp_delta < timestamp

\* line 70: row[-1] = row[-1][:-1]
TrimLast(row) == [row EXCEPT ![Len(row)] = ButLast(@)]

\* one iteration of the loop body for a data row (lines 66-80); a sample is
\* the pair (timestamp, row), here a record
SampleRow(samples, row, timestamp_column, timestamp_delta) ==
    IF timestamp_column >= Len(row) THEN Raise("IndexError")
    ELSE LET parsed == strptime(row[timestamp_column + 1]) IN
         IF parsed.exc # "None" THEN parsed
         ELSE LET timestamp == parsed.val
                  trimmed == TrimLast(row)
                  first == IF Len(samples) = 0
                           THEN Append(samples, [timestamp |-> timestamp, row |-> trimmed])
                           ELSE samples
                  next == IF NextSampleDue(first, timestamp_delta, timestamp)
                          THEN Append(first, [timestamp |-> timestamp, row |-> trimmed])
                          ELSE first
              IN Ok(next)

RECURSIVE SampleLoop(_, _, _, _, _)
SampleLoop(reader, i, samples, timestamp_column, timestamp_delta) ==
    IF i > Len(reader) THEN Ok(samples)
    ELSE Bind(SampleRow(samples, reader[i], timestamp_column, timestamp_delta),
              LAMBDA step :
                  IF step.exc # "None" THEN step
                  ELSE SampleLoop(reader, i + 1, step.val, timestamp_column, timestamp_delta))

\* returns (header, samples); header stays list() when the reader is empty
sample_file(reader, timestamp_column, timestamp_delta) ==
    Bind(SampleLoop(reader, 2, EmptySamples, timestamp_column, timestamp_delta),
         LAMBDA loop :
             IF loop.exc # "None" THEN loop
             ELSE Ok([header |-> IF Len(reader) = 0 THEN <<>> ELSE reader[1],
                      samples |-> loop.val]))

(***************************************************************************)
(* Inputs of sample_file.                                                  *)
(***************************************************************************)
TimeCells == {<<Digits[n + 1]>> : n \in 0..MaxTime}
BadCell == <<"z">>
TextCells == {<<"1">>, <<"x", "y">>}

SampleRows == {<<c0, c1>> : c0 \in TimeCells \cup {BadCell}, c1 \in TextCells}
SampleHeader == <<<<"T">>, <<"V">>>>

RECURSIVE SeqsUpTo(_, _)
SeqsUpTo(S, n) ==
    IF n = 0 THEN {<<>>}
    ELSE LET shorter == SeqsUpTo(S, n - 1) IN
         shorter \cup {Append(s, x) : s \in {t \in shorter : Len(t) = n - 1}, x \in S}

SampleReaders == {<<SampleHeader>> \o rows : rows \in SeqsUpTo(SampleRows, MaxRows)}

Idle == [exc |-> "None", val |-> <<>>]

InitSampleFile ==
    /\ pc = "start"
    /\ input \in [reader : SampleReaders,
                  timestamp_column : {0, 1},
                  timestamp_delta : (-1)..MaxDelta]
    /\ result = Idle
    /\ queue = <<>>
    /\ out = <<>>
    /\ run = NoRun

CallSampleFile ==
    /\ pc = "start"
    /\ result' = sample_file(input.reader, input.timestamp_column, input.timestamp_delta)
    /\ pc' = "done"
    /\ UNCHANGED <<input, queue, out, run>>

NextSampleFile == CallSampleFile

SpecSampleFile == InitSampleFile /\ [][NextSampleFile]_vars

(***************************************************************************)
(* C1                                                                      *)
(***************************************************************************)
\* the data rows of a reader and their timestamps
DataRows(reader) == IF Len(reader) = 0 THEN <<>> ELSE Tail(reader)
RowTime(row, col) == strptime(row[col + 1]).val
AllParse(reader, col) ==
    \A k \in DOMAIN DataRows(reader) : strptime(DataRows(reader)[k][col + 1]).exc = "None"

\* Taken(rows, col, delta)[k] is the index of the most recently taken row among
\* rows 1..k according to the claim: row 1 is taken; a later row is taken iff
\* the time of the most recently taken row + delta is strictly below its time
LastTaken(rows, col, delta) ==
    LET last[k \in 0..Len(rows)] ==
            IF k = 0 THEN 0
            ELSE IF k = 1 THEN 1
            ELSE IF RowTime(rows[last[k - 1]], col) + delta < RowTime(rows[k], col)
                 THEN k ELSE last[k - 1]
    IN last

RECURSIVE TakenRows(_, _, _)
TakenRows(rows, last, k) ==
    IF k > Len(rows) THEN <<>>
    ELSE (IF last[k] = k THEN <<k>> ELSE <<>>) \o TakenRows(rows, last, k + 1)

\* what the claim says sample_file returns for these rows: the taken rows, in
\* row order, each with its timestamp
ExpectedSamples(reader, col, delta) ==
    LET rows == DataRows(reader)
        idx == TakenRows(rows, LastTaken(rows, col, delta), 1)
    IN [j \in DOMAIN idx |->
            [timestamp |-> RowTime(rows[idx[j]], col), row |-> TrimLast(rows[idx[j]])]]

\* C1: for every file whose data rows all have a parseable timestamp and every
\* non-negative delta, sample_file returns exactly the first data row and every
\* later row whose timestamp is strictly above (timestamp of the most recently
\* taken sample + delta), in row order.
C1_SamplesAreFirstAndStrictlyLater ==
    (pc = "done" /\ input.timestamp_delta >= 0
                 /\ AllParse(input.reader, input.timestamp_column))
    => /\ result.exc = "None"
       /\ result.val.samples =
              ExpectedSamples(input.reader, input.timestamp_column, input.timestamp_delta)

\* a row exactly on the boundary is skipped and a later row is taken: times
\* 0, 2, 3 with delta 2 give the samples 0 and 3
C1_Witness ==
    /\ pc = "done"
    /\ input.timestamp_delta = 2
    /\ input.timestamp_column = 0
    /\ Len(input.reader) = 4
    /\ input.reader[2][1] = <<"0">>
    /\ input.reader[3][1] = <<"2">>
    /\ input.reader[4][1] = <<"3">>
    /\ result.exc = "None"
    /\ Len(result.val.samples) = 2
    /\ result.val.samples[2].timestamp = 3

(***************************************************************************)
(* finder.py: match_file                                                   *)
(***************************************************************************)
\* the characters of the model in code point order, for str < and >
Alphabet == <<"0", "1", "2", "3", "4", "5", "6", "7", "8", "9",
              "A", "B", "C", "T", "V", "X", "Y", "a", "b", "r", "x", "y", "z">>
Ord(c) == CHOOSE k \in DOMAIN Alphabet : Alphabet[k] = c

\* Python's str < str: lexicographic on code points, a proper prefix is smaller
RECURSIVE StrLess(_, _)
StrLess(s, t) ==
    IF Len(t) = 0 THEN FALSE
    ELSE IF Len(s) = 0 THEN TRUE
    ELSE IF Ord(Head(s)) < Ord(Head(t)) THEN TRUE
    ELSE IF Ord(Head(s)) > Ord(Head(t)) THEN FALSE
    ELSE StrLess(Tail(s), Tail(t))

\* comparators[comparison](match)(value), lines 202-207
Compare(comparison, match, value) ==
    CASE comparison = "==" -> value = match
      [] comparison = "!=" -> value # match
      [] comparison = ">" -> StrLess(match, value)
      [] comparison = "<" -> StrLess(value, match)

\* the inner loop over the conditions for one row (lines 71-78): the row is
\* appended once for every condition that holds, there is no break
RECURSIVE MatchRow(_, _, _, _)
MatchRow(matches, row, match_conditions, j) ==
    IF j > Len(match_conditions) THEN Ok(matches)
    ELSE LET cond == match_conditions[j] IN
         IF cond.column >= Len(row) THEN Raise("IndexError")
         ELSE LET data == row[cond.column + 1] IN
              Bind(IF Compare(cond.comparison, cond.match, data)
                   THEN Append(matches, row) ELSE matches,
                   LAMBDA appended : MatchRow(appended, row, match_conditions, j + 1))

RECURSIVE MatchLoop(_, _, _, _)
MatchLoop(reader, i, matches, match_conditions) ==
    IF i > Len(reader) THEN Ok(matches)
    ELSE Bind(MatchRow(matches, reader[i], match_conditions, 1),
              LAMBDA step :
                  IF step.exc # "None" THEN step
                  ELSE MatchLoop(reader, i + 1, step.val, match_conditions))

\* returns (header, matches)
match_file(reader, match_conditions) ==
    IF Len(match_conditions) = 0 THEN Ok([header |-> <<>>, matches |-> <<>>])
    ELSE Bind(MatchLoop(reader, 2, <<>>, match_conditions),
              LAMBDA loop :
                  IF loop.exc # "None" THEN loop
                  ELSE Ok([header |-> IF Len(reader) = 0 THEN <<>> ELSE reader[1],
                           matches |-> loop.val]))

(***************************************************************************)
(* Inputs of match_file.                                                   *)
(***************************************************************************)
MatchRows == {<<c0, c1>> : c0 \in {<<"a">>, <<"b">>}, c1 \in {<<"X">>, <<"Y">>}}
                \cup {<<<<"a">>>>}
MatchHeader == <<<<"A">>, <<"B">>>>
MatchReaders == {<<MatchHeader>> \o rows : rows \in SeqsUpTo(MatchRows, MaxRows)}

Condition(column, comparison, match) ==
    [column |-> column, comparison |-> comparison, match |-> match]

MatchConditions ==
    {Condition(0, "==", <<"a">>), Condition(1, "==", <<"X">>), Condition(1, "!=", <<"X">>),
     Condition(1, "<", <<"Y">>), Condition(1, ">", <<"X">>)}

InitMatchFile ==
    /\ pc = "start"
    /\ input \in [reader : MatchReaders,
                  match_conditions : SeqsUpTo(MatchConditions, MaxConds)]
    /\ result = Idle
    /\ queue = <<>>
    /\ out = <<>>
    /\ run = NoRun

CallMatchFile ==
    /\ pc = "start"
    /\ result' = match_file(input.reader, input.match_conditions)
    /\ pc' = "done"
    /\ UNCHANGED <<input, queue, out, run>>

NextMatchFile == CallMatchFile

SpecMatchFile == InitMatchFile /\ [][NextMatchFile]_vars

(***************************************************************************)
(* C2                                                                      *)
(***************************************************************************)
AnyConditionHolds(row, match_conditions) ==
    \E j \in DOMAIN match_conditions :
        Compare(match_conditions[j].comparison, match_conditions[j].match,
                row[match_conditions[j].column + 1])

RECURSIVE SelectRows(_, _)
SelectRows(rows, match_conditions) ==
    IF Len(rows) = 0 THEN <<>>
    ELSE (IF AnyConditionHolds(Head(rows), match_conditions) THEN <<Head(rows)>> ELSE <<>>)
         \o SelectRows(Tail(rows), match_conditions)

ColumnsInRange(reader, match_conditions) ==
    \A k \in DOMAIN DataRows(reader) : \A j \in DOMAIN match_conditions :
        match_conditions[j].column < Len(DataRows(reader)[k])

\* C2: for a non-empty list of conditions, match_file returns exactly the
\* non-header rows on which at least one condition holds, each once, in
\* encounter order.
C2_MatchesEachRowOnce ==
    (pc = "done" /\ Len(input.match_conditions) > 0
                 /\ ColumnsInRange(input.reader, input.match_conditions))
    => /\ result.exc = "None"
       /\ result.val.matches = SelectRows(DataRows(input.reader), input.match_conditions)

\* the same statement for the one condition the command line builds
C2_SingleConditionMatchesEachRowOnce ==
    (pc = "done" /\ Len(input.match_conditions) = 1
                 /\ ColumnsInRange(input.reader, input.match_conditions))
    => /\ result.exc = "None"
       /\ result.val.matches = SelectRows(DataRows(input.reader), input.match_conditions)

(***************************************************************************)
(* Column projection.  The elements of a projected row are Python objects  *)
(* of different types, tagged here: a str, a list (a slice appended as one *)
(* element, or the row of a sample) and a datetime.                        *)
(***************************************************************************)
PyStr(s) == [t |-> "str", v |-> s]
PyList(l) == [t |-> "list", v |-> l]
PyTuple(l) == [t |-> "tuple", v |-> l]
PyDatetime(n) == [t |-> "datetime", v |-> n]

\* a list of str as a list of objects
Objs(row) == [k \in DOMAIN row |-> PyStr(row[k])]

\* sep in s
Contains(s, sep) == \E k \in DOMAIN s : s[k] = sep

\* s.split(sep), sep one character
RECURSIVE SplitFrom(_, _, _, _)
SplitFrom(s, sep, k, piece) ==
    IF k > Len(s) THEN <<piece>>
    ELSE IF s[k] = sep THEN <<piece>> \o SplitFrom(s, sep, k + 1, <<>>)
    ELSE SplitFrom(s, sep, k + 1, Append(piece, s[k]))

Split(s, sep) == SplitFrom(s, sep, 1, <<>>)

\* int(s) of a str of decimal digits
RECURSIVE DigitsValue(_, _)
DigitsValue(s, acc) ==
    IF Len(s) = 0 THEN acc ELSE DigitsValue(Tail(s), 10 * acc + DigitVal(Head(s)))

int(s) ==
    IF Len(s) > 0 /\ \A k \in DOMAIN s : IsDigit(s[k])
    THEN Ok(DigitsValue(s, 0)) ELSE Raise("ValueError")

\* range_start, range_end = map(int, token.split("-"))
RangeOf(token) ==
    LET parts == Split(token, "-") IN
    IF Len(parts) # 2 THEN Raise("ValueError")
    ELSE IF int(parts[1]).exc # "None" \/ int(parts[2]).exc # "None" THEN Raise("ValueError")
    ELSE Ok([range_start |-> int(parts[1]).val, range_end |-> int(parts[2]).val])

\* sampler.py lines 126-131, one token: a slice is appended as ONE element
\* (list.append), a single index appends the element at int(token); row is a
\* list or a tuple, and its slice is of the same type
RECURSIVE SamplerTokens(_, _, _, _)
SamplerTokens(tokens, k, row, new_row) ==
    IF k > Len(tokens) THEN Ok(new_row)
    ELSE LET token == tokens[k] IN
         IF Contains(token, "-")
         THEN LET r == RangeOf(token) IN
              IF r.exc # "None" THEN r
              ELSE Bind(Append(new_row, [t |-> row.t,
                                         v |-> Slice(row.v, r.val.range_start, r.val.range_end)]),
                        LAMBDA appended : SamplerTokens(tokens, k + 1, row, appended))
         ELSE LET n == int(token) IN
              IF n.exc # "None" THEN n
              ELSE IF n.val >= Len(row.v) THEN Raise("IndexError")
              ELSE Bind(Append(new_row, row.v[n.val + 1]),
                        LAMBDA appended : SamplerTokens(tokens, k + 1, row, appended))

map_column_spec_to_row(column_spec, row) ==
    SamplerTokens(Split(column_spec, ","), 1, row, <<>>)

\* finder.py lines 313-320 and 331-338, one token: a slice is flattened into
\* the new row (list.extend); a single index subscripts the list with the
\* token itself, a str, which raises TypeError
RECURSIVE FinderTokens(_, _, _, _)
FinderTokens(tokens, k, row, new_row) ==
    IF k > Len(tokens) THEN Ok(new_row)
    ELSE LET column_spec == tokens[k] IN
         IF Contains(column_spec, "-")
         THEN LET r == RangeOf(column_spec) IN
              IF r.exc # "None" THEN r
              ELSE Bind(new_row \o Slice(row, r.val.range_start, r.val.range_end),
                        LAMBDA extended : FinderTokens(tokens, k + 1, row, extended))
         ELSE Raise("TypeError")

finder_project(output_columns, row) ==
    FinderTokens(Split(output_columns, ","), 1, row, <<>>)

(***************************************************************************)
(* Inputs of the projection: column specifications that pass the check of  *)
(* the ranges at lines 241-250 (range_start < range_end).                  *)
(***************************************************************************)
IndexTokens == {<<"0">>, <<"1">>, <<"2">>}
RangeTokens == {<<"0", "-", "2">>, <<"1", "-", "2">>, <<"1", "-", "3">>}

RECURSIVE Join(_)
Join(tokens) ==
    IF Len(tokens) = 1 THEN tokens[1] ELSE tokens[1] \o <<",">> \o Join(Tail(tokens))

ColumnSpecs ==
    {Join(tokens) : tokens \in SeqsUpTo(IndexTokens \cup RangeTokens, MaxTokens) \ {<<>>}}

ProjectRows == {<<<<"a">>, <<"X">>>>, <<<<"a">>, <<"X">>, <<"1">>>>, <<<<"b">>, <<"Y">>, <<"2">>>>}

InitProject ==
    /\ pc = "start"
    /\ input \in [column_spec : ColumnSpecs, row : ProjectRows]
    /\ result = Idle
    /\ queue = <<>>
    /\ out = <<>>
    /\ run = NoRun

CallMapColumnSpecToRow ==
    /\ pc = "start"
    /\ result' = map_column_spec_to_row(input.column_spec, PyList(Objs(input.row)))
    /\ pc' = "sampler"
    /\ UNCHANGED <<input, queue, out, run>>

CallFinderProject ==
    /\ pc = "start"
    /\ result' = finder_project(input.column_spec, Objs(input.row))
    /\ pc' = "finder"
    /\ UNCHANGED <<input, queue, out, run>>

NextProject == CallMapColumnSpecToRow \/ CallFinderProject

SpecProject == InitProject /\ [][NextProject]_vars

(***************************************************************************)
(* C3, C4                                                                  *)
(***************************************************************************)
SpecTokens(column_spec) == Split(column_spec, ",")
IsRangeToken(token) == Contains(token, "-")

\* the cells the claims say a token contributes
Expansion(token, row) ==
    IF IsRangeToken(token)
    THEN Slice(row, RangeOf(token).val.range_start, RangeOf(token).val.range_end)
    ELSE <<row[int(token).val + 1]>>

RECURSIVE Flattened(_, _)
Flattened(tokens, row) ==
    IF Len(tokens) = 0 THEN <<>> ELSE Expansion(Head(tokens), row) \o Flattened(Tail(tokens), row)

TokenFits(token, row) ==
    IF IsRangeToken(token) THEN RangeOf(token).val.range_end <= Len(row)
    ELSE int(token).val < Len(row)

\* C3: in both variants a range token a-b applied to a row of length >= b
\* contributes the b-a cells row[a..b-1], flattened as individual cells, so a
\* specification made of range tokens yields the concatenation of its slices.
C3_RangesAreFlattened ==
    (pc \in {"sampler", "finder"}
        /\ \A k \in DOMAIN SpecTokens(input.column_spec) :
              /\ IsRangeToken(SpecTokens(input.column_spec)[k])
              /\ TokenFits(SpecTokens(input.column_spec)[k], input.row))
    => /\ result.exc = "None"
       /\ Len(result.val) = Len(Flattened(SpecTokens(input.column_spec), input.row))
       /\ \A k \in DOMAIN result.val :
              /\ result.val[k].t = "str"
              /\ result.val[k].v = Flattened(SpecTokens(input.column_spec), input.row)[k]

\* the finder's half of C3, which the code satisfies
C3_FinderRangesAreFlattened ==
    (pc = "finder"
        /\ \A k \in DOMAIN SpecTokens(input.column_spec) :
              /\ IsRangeToken(SpecTokens(input.column_spec)[k])
              /\ TokenFits(SpecTokens(input.column_spec)[k], input.row))
    => /\ result.exc = "None"
       /\ result.val = Objs(Flattened(SpecTokens(input.column_spec), input.row))

\* C4: in both variants a specification of single-index tokens, each below the
\* row length, yields one cell per token, the k-th being the source cell at the
\* k-th token's index.
C4_IndicesSelectCells ==
    (pc \in {"sampler", "finder"}
        /\ \A k \in DOMAIN SpecTokens(input.column_spec) :
              /\ ~IsRangeToken(SpecTokens(input.column_spec)[k])
              /\ TokenFits(SpecTokens(input.column_spec)[k], input.row))
    => /\ result.exc = "None"
       /\ Len(result.val) = Len(SpecTokens(input.column_spec))
       /\ \A k \in DOMAIN result.val :
              result.val[k] = PyStr(input.row[int(SpecTokens(input.column_spec)[k]).val + 1])

\* the sampler's half of C4, which the code satisfies
C4_SamplerIndicesSelectCells ==
    (pc = "sampler"
        /\ \A k \in DOMAIN SpecTokens(input.column_spec) :
              /\ ~IsRangeToken(SpecTokens(input.column_spec)[k])
              /\ TokenFits(SpecTokens(input.column_spec)[k], input.row))
    => /\ result.exc = "None"
       /\ Len(result.val) = Len(SpecTokens(input.column_spec))
       /\ \A k \in DOMAIN result.val :
              result.val[k] = PyStr(input.row[int(SpecTokens(input.column_spec)[k]).val + 1])

(***************************************************************************)
(* csv.writer.writerow: a field that is not a str is written as str(field).*)
(* A written record is modelled as the sequence of its field texts, before *)
(* the quoting of the CSV dialect.                                         *)
(***************************************************************************)
\* str(datetime.datetime(1900, 1, 1, 0, n)): "1900-01-01 00:MM:00"
StrDatetime(n) ==
    <<"1", "9", "0", "0", "-", "0", "1", "-", "0", "1", " ", "0", "0", ":",
      Digits[(n \div 10) + 1], Digits[(n % 10) + 1], ":", "0", "0">>

\* repr(datetime.datetime(1900, 1, 1, 0, n)): "datetime.datetime(1900, 1, 1, 0, n)"
ReprDatetime(n) ==
    <<"d", "a", "t", "e", "t", "i", "m", "e", ".", "d", "a", "t", "e", "t", "i", "m", "e",
      "(", "1", "9", "0", "0", ",", " ", "1", ",", " ", "1", ",", " ", "0", ",", " ">>
    \o (IF n >= 10 THEN <<Digits[(n \div 10) + 1]>> ELSE <<>>) \o <<Digits[(n % 10) + 1], ")">>

\* repr of an object; a str of the model holds no quote and no backslash
RECURSIVE Repr(_)
RECURSIVE ReprItems(_)
ReprItems(items) ==
    IF Len(items) = 0 THEN <<>>
    ELSE IF Len(items) = 1 THEN Repr(items[1])
    ELSE Repr(items[1]) \o <<",", " ">> \o ReprItems(Tail(items))

Repr(obj) ==
    CASE obj.t = "str" -> <<"'">> \o obj.v \o <<"'">>
      [] obj.t = "datetime" -> ReprDatetime(obj.v)
      [] obj.t = "list" -> <<"[">> \o ReprItems(obj.v) \o <<"]">>
      [] obj.t = "tuple" ->
            <<"(">> \o ReprItems(obj.v) \o (IF Len(obj.v) = 1 THEN <<",">> ELSE <<>>) \o <<")">>

Str(obj) ==
    CASE obj.t = "str" -> obj.v
      [] obj.t = "datetime" -> StrDatetime(obj.v)
      [] OTHER -> Repr(obj)

writerow(fields) == [k \in DOMAIN fields |-> Str(fields[k])]

(***************************************************************************)
(* sampler.py: the main loop, lines 286-344.  queue holds the archives     *)
(* that locate_files yields for the dates, in the order of the two loops;  *)
(* out is the output file, opened before the loop, one entry per record    *)
(* written, with the kind of the record and the number of the archive it   *)
(* was written for.                                                        *)
(***************************************************************************)
Archive(rows) == [member |-> TRUE, rows |-> rows]
NoMember == [member |-> FALSE, rows |-> <<>>]

Record(kind, n, cells) == [kind |-> kind, file |-> n, cells |-> cells]

\* HeaderWrittenAfterWrite with the flag never set
HeaderWrittenAfterWrite_NeverSet == FALSE

\* line 328: header_written = True
HeaderWrittenAfterWrite == TRUE

\* lines 316-328: the header write, gated by header_written
SamplerWriteHeader(file_header, n, output_columns, st) ==
    IF st.run.header_written THEN st
    ELSE LET r1 == [st.run EXCEPT !.csv_header = file_header] IN
         IF output_columns # None
         THEN LET p == map_column_spec_to_row(output_columns[1], PyList(Objs(file_header))) IN
              IF p.exc # "None" THEN [exc |-> p.exc, out |-> st.out, run |-> r1]
              ELSE [exc |-> "None",
                    out |-> Append(st.out, Record("header", n, writerow(p.val))),
                    run |-> [r1 EXCEPT !.header_written = HeaderWrittenAfterWrite]]
         ELSE [exc |-> "None",
               out |-> Append(st.out, Record("header", n, writerow(Objs(file_header)))),
               run |-> [r1 EXCEPT !.header_written = HeaderWrittenAfterWrite]]

\* lines 330-333: the warning on a header that differs
WarnOnHeader(file_header, n, st) ==
    IF st.exc = "None" /\ st.run.csv_header # file_header
    THEN [st EXCEPT !.run.warnings = Append(@, n)] ELSE st

\* lines 336-344: sample_row is the pair (timestamp, row) that sample_file
\* returned, and it is the pair that is projected and written
RECURSIVE SamplerWriteSamples(_, _, _, _, _)
SamplerWriteSamples(file_samples, k, n, output_columns, st) ==
    IF st.exc # "None" \/ k > Len(file_samples) THEN st
    ELSE LET sample_row == PyTuple(<<PyDatetime(file_samples[k].timestamp),
                                     PyList(Objs(file_samples[k].row))>>) IN
         IF output_columns # None
         THEN LET p == map_column_spec_to_row(output_columns[1], sample_row) IN
              IF p.exc # "None" THEN [st EXCEPT !.exc = p.exc]
              ELSE Bind([st EXCEPT !.out = Append(@, Record("sample", n, writerow(p.val)))],
                        LAMBDA written :
                            SamplerWriteSamples(file_samples, k + 1, n, output_columns, written))
         ELSE Bind([st EXCEPT !.out = Append(@, Record("sample", n, writerow(sample_row.v)))],
                   LAMBDA written :
                       SamplerWriteSamples(file_samples, k + 1, n, output_columns, written))

\* lines 316-344: what is written for one archive once sample_file returned
SamplerOutput(file_header, file_samples, file, n, args, st) ==
    Bind([st EXCEPT !.run.log = Append(@, [n |-> n, rows |-> file.rows,
                                           header |-> file_header,
                                           samples |-> file_samples])],
         LAMBDA logged :
             Bind(SamplerWriteHeader(file_header, n, args.output_columns, logged),
                  LAMBDA headed :
                      Bind(WarnOnHeader(file_header, n, headed),
                           LAMBDA warned :
                               SamplerWriteSamples(file_samples, 1, n,
                                                   args.output_columns, warned))))

\* lines 304-344 for one archive: the output and the loop state after it, and
\* the exception that ended it, if any
SamplerFile(file, n, args, st) ==
    IF ~file.member THEN [st EXCEPT !.exc = "KeyError"]
    ELSE Bind(sample_file(file.rows, args.timestamp_column, args.timestamp_delta),
              LAMBDA r :
                  IF r.exc # "None" THEN [st EXCEPT !.exc = r.exc]
                  ELSE SamplerOutput(r.val.header, r.val.samples, file, n, args, st))

(***************************************************************************)
(* Inputs of a sampler run.  --timestamp-column is at least 1 (line 237).  *)
(***************************************************************************)
HeaderA == <<<<"A">>, <<"T">>, <<"C">>>>
HeaderB == <<<<"B">>, <<"T">>, <<"C">>>>

TimedRow(t) == <<<<"r">>, t, <<"x", "y">>>>
GoodRows == {TimedRow(<<"0">>), TimedRow(<<"1">>)}
BadRow == TimedRow(BadCell)
ShortRow == <<<<"r">>>>

SamplerBodies ==
    {<<>>} \cup {<<g>> : g \in GoodRows} \cup {<<g, h>> : g \in GoodRows, h \in GoodRows}
        \cup {<<BadRow>>, <<ShortRow>>, <<TimedRow(<<"0">>), BadRow>>}

SamplerArchives ==
    {Archive(<<h>> \o body) : h \in {HeaderA, HeaderB}, body \in SamplerBodies}
        \cup {Archive(<<>>), NoMember}

SamplerColumns ==
    {None, Some(<<"1">>), Some(<<"2">>), Some(<<"0", "-", "2">>), Some(<<"0", ",", "2">>)}

InitSampler ==
    /\ pc = "loop"
    /\ input \in [output_columns : SamplerColumns,
                  timestamp_column : {1},
                  timestamp_delta : {0, 1}]
    /\ result = Idle
    /\ queue \in SeqsUpTo(SamplerArchives, MaxFiles)
    /\ out = <<>>
    /\ run = [NoRun EXCEPT !.opened = TRUE]

\* one iteration of the loop over the located archives
SamplerProcessFile ==
    /\ pc = "loop"
    /\ Len(queue) > 0
    /\ \E st \in {SamplerFile(Head(queue), run.n + 1, input,
                             [exc |-> "None", out |-> out, run |-> [run EXCEPT !.n = @ + 1]])} :
          /\ out' = st.out
          /\ run' = st.run
          /\ pc' = IF st.exc = "None" THEN "loop" ELSE "aborted"
          /\ result' = [exc |-> st.exc, val |-> <<>>]
    /\ queue' = Tail(queue)
    /\ UNCHANGED input

\* the loops are exhausted and the output file is closed
SamplerFinish ==
    /\ pc = "loop"
    /\ Len(queue) = 0
    /\ pc' = "done"
    /\ UNCHANGED <<input, result, queue, out, run>>

NextSampler == SamplerProcessFile \/ SamplerFinish

SpecSampler == InitSampler /\ [][NextSampler]_vars

(***************************************************************************)
(* C5, C6, C7, C8                                                          *)
(***************************************************************************)
\* the record the claims expect for the row of a sample
ExpectedRecord(row, output_columns) ==
    IF output_columns = None THEN row
    ELSE Flattened(SpecTokens(output_columns[1]), row)

RowFits(row, output_columns) ==
    output_columns # None =>
        \A k \in DOMAIN SpecTokens(output_columns[1]) :
            TokenFits(SpecTokens(output_columns[1])[k], row)

\* C5: every record written after the header is the row of one sample that
\* sample_file returned for that archive (projected when --output-columns is
\* given): the string cells of the row, not the (timestamp, row) pair.
C5_WrittenRecordsAreSampleRows ==
    \A k \in DOMAIN out :
        out[k].kind = "sample" =>
            \E e \in DOMAIN run.log : \E j \in DOMAIN run.log[e].samples :
                /\ run.log[e].n = out[k].file
                /\ RowFits(run.log[e].samples[j].row, input.output_columns)
                /\ out[k].cells = ExpectedRecord(run.log[e].samples[j].row, input.output_columns)

\* the same statement without --output-columns: the record has as many cells
\* as the source row
C5_WrittenRecordsHaveRowLength ==
    \A k \in DOMAIN out :
        (out[k].kind = "sample" /\ input.output_columns = None) =>
            \E e \in DOMAIN run.log : \E j \in DOMAIN run.log[e].samples :
                /\ run.log[e].n = out[k].file
                /\ Len(out[k].cells) = Len(run.log[e].samples[j].row)

\* C6: the baseline is reset at the start of every archive: the first data row
\* of every archive is taken as a sample, whatever the previous archive ended
\* with, and the samples of an archive are those its own rows determine.
C6_BaselineResetPerFile ==
    \A e \in DOMAIN run.log :
        LET rows == run.log[e].rows
            samples == run.log[e].samples
        IN /\ Len(rows) >= 2 =>
                /\ Len(samples) >= 1
                /\ samples[1].row = TrimLast(rows[2])
                /\ samples[1].timestamp = RowTime(rows[2], input.timestamp_column)
           /\ input.timestamp_delta >= 0 =>
                samples = ExpectedSamples(rows, input.timestamp_column, input.timestamp_delta)

\* the second archive starts within delta of the last sample of the first one
\* and its first row is sampled and written
C6_Witness ==
    /\ Len(run.log) = 2
    /\ input.timestamp_delta = 1
    /\ Len(run.log[1].samples) >= 1
    /\ Len(run.log[2].samples) >= 1
    /\ run.log[2].samples[1].timestamp
          <= run.log[1].samples[Len(run.log[1].samples)].timestamp
    /\ \E k \in DOMAIN out : out[k].kind = "sample" /\ out[k].file = 2

HeaderWrites == Cardinality({k \in DOMAIN out : out[k].kind = "header"})

\* C7 as stated: in every run the header is written exactly once.
C7_HeaderWrittenExactlyOnce ==
    pc = "done" => HeaderWrites = 1

\* C7 as amended: the header is written at most once, as the first record of
\* the output, before every sample row, and never again for a later archive;
\* exactly once in a run that completes after processing at least one archive,
\* and not at all in a run that locates no archive.
C7_HeaderWrittenAtMostOnceAndFirst ==
    /\ \A k \in DOMAIN out : (out[k].kind = "header") <=> (k = 1)
    /\ HeaderWrites <= 1
    /\ (pc = "done" /\ run.n >= 1) => HeaderWrites = 1
    /\ run.n = 0 => HeaderWrites = 0

\* two archives were processed, both wrote samples, one header was written
C7_Witness ==
    /\ pc = "done"
    /\ run.n = 2
    /\ HeaderWrites = 1
    /\ \E k \in DOMAIN out : out[k].kind = "sample" /\ out[k].file = 1
    /\ \E k \in DOMAIN out : out[k].kind = "sample" /\ out[k].file = 2

\* C8, the sampler: when archive N fails, the output holds what archives
\* 1..N-1 wrote and nothing from archive N or later.
C8_SamplerOutputHoldsEarlierFilesOnly ==
    pc = "aborted" => \A k \in DOMAIN out : out[k].file < run.n

\* C8, the part that holds: no archive after the failing one is read or written
C8_SamplerNothingAfterFailure ==
    pc = "aborted" => ((\A k \in DOMAIN out : out[k].file <= run.n) /\ ~ENABLED NextSampler)

(***************************************************************************)
(* finder.py: the main loop, lines 239-280, and the write, lines 285-342.  *)
(* The output file is opened after the loop (run.opened).                  *)
(***************************************************************************)
\* lines 270-280 once match_file returned: "if not csv_header" takes an
\* empty header for no header yet
FinderAccumulate(file_header, file_matches, file, n, st) ==
    Bind([st EXCEPT !.run.log = Append(@, [n |-> n, rows |-> file.rows,
                                           header |-> file_header,
                                           matches |-> file_matches])],
         LAMBDA logged :
             Bind(IF Len(logged.run.csv_header) = 0
                  THEN [logged EXCEPT !.run.csv_header = file_header] ELSE logged,
                  LAMBDA headed :
                      Bind(WarnOnHeader(file_header, n, headed),
                           LAMBDA warned :
                               [warned EXCEPT !.run.csv_matches = @ \o file_matches])))

\* lines 260-280 for one archive
FinderFile(file, n, args, st) ==
    IF ~file.member THEN [st EXCEPT !.exc = "KeyError"]
    ELSE Bind(match_file(file.rows, args.match_conditions),
              LAMBDA r :
                  IF r.exc # "None" THEN [st EXCEPT !.exc = r.exc]
                  ELSE FinderAccumulate(r.val.header, r.val.matches, file, n, st))

\* lines 310-324: the header, written once, after the loop
FinderWriteHeader(output_columns, st) ==
    IF output_columns # None
    THEN LET p == finder_project(output_columns[1], Objs(st.run.csv_header)) IN
         IF p.exc # "None" THEN [st EXCEPT !.exc = p.exc]
         ELSE [st EXCEPT !.out = Append(@, Record("header", 0, writerow(p.val)))]
    ELSE [st EXCEPT !.out = Append(@, Record("header", 0, writerow(Objs(st.run.csv_header))))]

\* lines 327-342: the matches of all archives
RECURSIVE FinderWriteMatches(_, _, _, _)
FinderWriteMatches(csv_matches, k, output_columns, st) ==
    IF st.exc # "None" \/ k > Len(csv_matches) THEN st
    ELSE LET match_row == csv_matches[k] IN
         IF output_columns # None
         THEN LET p == finder_project(output_columns[1], Objs(match_row)) IN
              IF p.exc # "None" THEN [st EXCEPT !.exc = p.exc]
              ELSE Bind([st EXCEPT !.out = Append(@, Record("match", 0, writerow(p.val)))],
                        LAMBDA written :
                            FinderWriteMatches(csv_matches, k + 1, output_columns, written))
         ELSE Bind([st EXCEPT !.out = Append(@, Record("match", 0, writerow(Objs(match_row))))],
                   LAMBDA written :
                       FinderWriteMatches(csv_matches, k + 1, output_columns, written))

(***************************************************************************)
(* Inputs of a finder run.  --match-column is at least 1 (line 186) and    *)
(* the command line builds one condition (lines 214-216).                  *)
(***************************************************************************)
FinderHeaderA == <<<<"A">>, <<"B">>>>
FinderHeaderC == <<<<"C">>, <<"B">>>>

FinderGoodRows == {<<<<"a">>, <<"X">>>>, <<<<"b">>, <<"Y">>>>}
FinderBodies ==
    {<<>>} \cup {<<g>> : g \in FinderGoodRows}
        \cup {<<g, h>> : g \in FinderGoodRows, h \in FinderGoodRows}
        \cup {<<<<<<"a">>>>>>}

FinderArchives ==
    {Archive(<<h>> \o body) : h \in {FinderHeaderA, FinderHeaderC}, body \in FinderBodies}
        \cup {Archive(<<>>), NoMember}

FinderColumns ==
    {None, Some(<<"1">>), Some(<<"0", "-", "2">>), Some(<<"1", "-", "2", ",", "0", "-", "1">>)}

InitFinder ==
    /\ pc = "loop"
    /\ input \in [output_columns : FinderColumns,
                  match_conditions : {<<Condition(1, "==", <<"X">>)>>}]
    /\ result = Idle
    /\ queue \in SeqsUpTo(FinderArchives, MaxFiles)
    /\ out = <<>>
    /\ run = NoRun

\* one iteration of the loop over the located archives
FinderProcessFile ==
    /\ pc = "loop"
    /\ Len(queue) > 0
    /\ \E st \in {FinderFile(Head(queue), run.n + 1, input,
                             [exc |-> "None", out |-> out, run |-> [run EXCEPT !.n = @ + 1]])} :
          /\ out' = st.out
          /\ run' = st.run
          /\ pc' = IF st.exc = "None" THEN "loop" ELSE "aborted"
          /\ result' = [exc |-> st.exc, val |-> <<>>]
    /\ queue' = Tail(queue)
    /\ UNCHANGED input

\* after the loop: the output file is opened, the header and the matches
\* are written
FinderWrite ==
    /\ pc = "loop"
    /\ Len(queue) = 0
    /\ \E st \in {Bind(FinderWriteHeader(input.output_columns,
                                         [exc |-> "None", out |-> out,
                                          run |-> [run EXCEPT !.opened = TRUE]]),
                       LAMBDA headed :
                           FinderWriteMatches(run.csv_matches, 1, input.output_columns, headed))} :
          /\ out' = st.out
          /\ run' = st.run
          /\ pc' = IF st.exc = "None" THEN "done" ELSE "write failed"
          /\ result' = [exc |-> st.exc, val |-> <<>>]
    /\ UNCHANGED <<input, queue>>

NextFinder == FinderProcessFile \/ FinderWrite

SpecFinder == InitFinder /\ [][NextFinder]_vars

(***************************************************************************)
(* C8 (the finder), C9                                                     *)
(***************************************************************************)
\* C8, the finder: when an archive fails, the output file is never opened or
\* written, and no later archive is read.
C8_FinderNeverOpensOutput ==
    pc = "aborted" => (~run.opened /\ out = <<>> /\ ~ENABLED NextFinder)

\* the warnings the claim expects after the archives logged so far
RECURSIVE DifferingFrom(_, _, _)
DifferingFrom(log, first, k) ==
    IF k > Len(log) THEN <<>>
    ELSE (IF log[k].header # first THEN <<log[k].n>> ELSE <<>>) \o DifferingFrom(log, first, k + 1)

RECURSIVE AllMatches(_)
AllMatches(log) == IF Len(log) = 0 THEN <<>> ELSE log[1].matches \o AllMatches(Tail(log))

\* C9: the header of the run is the header of the first processed archive,
\* whatever it is, later archives never replace it, the warning is printed for
\* exactly the later archives whose header differs from the first one's, and a
\* mismatch drops no match.
C9_HeaderIsFirstFilesHeader ==
    Len(run.log) > 0 =>
        /\ run.csv_header = run.log[1].header
        /\ run.warnings = DifferingFrom(run.log, run.log[1].header, 2)
        /\ run.csv_matches = AllMatches(run.log)

\* the same statement for runs whose first archive has a non-empty header
C9_HeaderIsFirstNonEmptyHeader ==
    (Len(run.log) > 0 /\ Len(run.log[1].header) > 0) =>
        /\ run.csv_header = run.log[1].header
        /\ run.warnings = DifferingFrom(run.log, run.log[1].header, 2)
        /\ run.csv_matches = AllMatches(run.log)

(***************************************************************************)
(* build_file_glob, finder.py and sampler.py lines 12-35.  The fragments   *)
(* and the glob are strings; an absent fragment is None.                   *)
(***************************************************************************)
\* finder_build_file_glob without the wildcard after the date
finder_build_file_glob_NoDateWildcard(prefix, file_date, postfix, extension) ==
    LET base0 == "*"
        base1 == IF prefix # None THEN prefix[1] \o "*" ELSE base0
        base2 == IF file_date # None THEN base1 \o file_date[1] ELSE base1
        base3 == IF postfix # None THEN base2 \o postfix[1] ELSE base2
        base4 == IF extension # None THEN base3 \o extension[1] ELSE base3
    IN base4

finder_build_file_glob(prefix, file_date, postfix, extension) ==
    LET base0 == "*"
        base1 == IF prefix # None THEN prefix[1] \o "*" ELSE base0
        base2 == IF file_date # None THEN base1 \o (file_date[1] \o "*") ELSE base1
        base3 == IF postfix # None THEN base2 \o postfix[1] ELSE base2
        base4 == IF extension # None THEN base3 \o extension[1] ELSE base3
    IN base4

sampler_build_file_glob(prefix, file_date, postfix, extension) ==
    LET base0 == "*"
        base1 == IF prefix # None THEN prefix[1] \o "*" ELSE base0
        base2 == IF file_date # None THEN base1 \o (file_date[1] \o "*") ELSE base1
        base3 == IF postfix # None THEN base2 \o postfix[1] ELSE base2
        base4 == IF extension # None THEN base3 \o extension[1] ELSE base3
    IN base4

Prefixes == {None, Some("P"), Some("ABC"), Some("")}
FileDates == {None, Some("20240101"), Some("20240102")}
Postfixes == {None, Some("_x"), Some("")}
Extensions == {None, Some(".zip"), Some(".csv")}

InitGlob ==
    /\ pc = "start"
    /\ input \in [prefix : Prefixes, file_date : FileDates,
                  postfix : Postfixes, extension : Extensions]
    /\ result = Idle
    /\ queue = <<>>
    /\ out = <<>>
    /\ run = NoRun

CallFinderGlob ==
    /\ pc = "start"
    /\ result' = Ok(finder_build_file_glob(input.prefix, input.file_date,
                                           input.postfix, input.extension))
    /\ pc' = "finder"
    /\ UNCHANGED <<input, queue, out, run>>

CallSamplerGlob ==
    /\ pc = "finder"
    /\ out' = <<sampler_build_file_glob(input.prefix, input.file_date,
                                        input.postfix, input.extension)>>
    /\ pc' = "both"
    /\ UNCHANGED <<input, result, queue, run>>

NextGlob == CallFinderGlob \/ CallSamplerGlob

SpecGlob == InitGlob /\ [][NextGlob]_vars

(***************************************************************************)
(* C10                                                                     *)
(***************************************************************************)
\* the fragment s, or nothing when it is absent
Given(fragment, suffix) == IF fragment # None THEN fragment[1] \o suffix ELSE ""

\* C10: build_file_glob returns (prefix + "*" or "*"), then (date + "*") if
\* the date is given, then the postfix, then the extension; "*" when all are
\* absent, "P*20240101*.zip" for P, 20240101, .zip; and the finder's and the
\* sampler's function return the same string.
C10_GlobIsPrefixDatePostfixExtension ==
    /\ pc \in {"finder", "both"} =>
          /\ result.val = (IF input.prefix # None THEN input.prefix[1] \o "*" ELSE "*")
                             \o Given(input.file_date, "*")
                             \o Given(input.postfix, "")
                             \o Given(input.extension, "")
          /\ (input.prefix = None /\ input.file_date = None /\ input.postfix = None
                /\ input.extension = None) => result.val = "*"
          /\ (input.prefix = Some("P") /\ input.file_date = Some("20240101")
                /\ input.postfix = None /\ input.extension = Some(".zip"))
                => result.val = "P*20240101*.zip"
    /\ pc = "both" => out[1] = result.val

\* both functions built the glob of the example
C10_Witness ==
    /\ pc = "both"
    /\ input.prefix = Some("P")
    /\ input.file_date = Some("20240101")
    /\ input.postfix = None
    /\ input.extension = Some(".zip")
    /\ out[1] = "P*20240101*.zip"

(***************************************************************************)
(* The output filename: finder.py lines 285-300 (inline) and sampler.py    *)
(* lines 85-108 (build_output_filename).  The fragments, the folder and    *)
(* the filename are str, sequences of characters.                          *)
(***************************************************************************)
Matches == <<"M", "a", "t", "c", "h", "e", "s">>
Samples == <<"S", "a", "m", "p", "l", "e", "s">>
DotCsv == <<".", "c", "s", "v">>

\* os.path.join(folder, name) for a name that is not absolute: the separator
\* is added unless the folder is empty or ends with it
PathJoin(folder, name) ==
    IF Len(folder) = 0 \/ folder[Len(folder)] = "/" THEN folder \o name
    ELSE folder \o <<"/">> \o name

\* "_".join(parts)
RECURSIVE JoinUnderscore(_)
JoinUnderscore(parts) ==
    IF Len(parts) = 0 THEN <<>>
    ELSE IF Len(parts) = 1 THEN parts[1]
    ELSE parts[1] \o <<"_">> \o JoinUnderscore(Tail(parts))

\* finder.py lines 285-300: "_{0}".format(...) appended fragment by fragment
finder_output_filename(args) ==
    LET name0 == Matches
        name1 == IF args.file_prefix # None
                 THEN name0 \o <<"_">> \o args.file_prefix[1] ELSE name0
        name2 == IF args.file_date # None
                 THEN name1 \o <<"_">> \o args.file_date[1]
                 ELSE IF args.file_start_date # None /\ args.file_end_date # None
                 THEN name1 \o <<"_">> \o args.file_start_date[1]
                            \o <<"-">> \o args.file_end_date[1]
                 ELSE name1
        name3 == IF args.file_postfix # None
                 THEN name2 \o <<"_">> \o args.file_postfix[1] ELSE name2
    IN PathJoin(args.output_folder, name3 \o DotCsv)

\* build_output_filename with the range looked at before the single date
build_output_filename_RangeFirst(args) ==
    LET parts0 == <<Samples>>
        parts1 == IF args.file_prefix # None
                  THEN Append(parts0, args.file_prefix[1]) ELSE parts0
        parts2 == IF args.file_start_date # None /\ args.file_end_date # None
                  THEN Append(parts1, args.file_start_date[1] \o <<"-">>
                                          \o args.file_end_date[1])
                  ELSE IF args.file_date # None
                  THEN Append(parts1, args.file_date[1])
                  ELSE parts1
        parts3 == IF args.file_postfix # None
                  THEN Append(parts2, args.file_postfix[1]) ELSE parts2
    IN PathJoin(args.output_folder, JoinUnderscore(parts3) \o DotCsv)

\* sampler.py lines 85-108, with the defaults prefix="Samples", ext=".csv"
build_output_filename(args) ==
    LET parts0 == <<Samples>>
        parts1 == IF args.file_prefix # None
                  THEN Append(parts0, args.file_prefix[1]) ELSE parts0
        parts2 == IF args.file_date # None
                  THEN Append(parts1, args.file_date[1])
                  ELSE IF args.file_start_date # None /\ args.file_end_date # None
                  THEN Append(parts1, args.file_start_date[1] \o <<"-">>
                                          \o args.file_end_date[1])
                  ELSE parts1
        parts3 == IF args.file_postfix # None
                  THEN Append(parts2, args.file_postfix[1]) ELSE parts2
    IN PathJoin(args.output_folder, JoinUnderscore(parts3) \o DotCsv)

Date1 == <<"2", "0", "2", "4", "0", "1", "0", "1">>
Date2 == <<"2", "0", "2", "4", "0", "1", "0", "2">>

NamePrefixes == {None, Some(<<"A", "B", "C">>), Some(<<>>)}
NameDates == {None, Some(Date1)}
NameStartDates == {None, Some(Date1)}
NameEndDates == {None, Some(Date2)}
NamePostfixes == {None, Some(<<"x">>), Some(<<>>)}
OutputFolders == {<<>>, <<"o", "u", "t">>, <<"o", "u", "t", "/">>}

InitFilename ==
    /\ pc = "start"
    /\ input \in [file_prefix : NamePrefixes, file_date : NameDates,
                  file_start_date : NameStartDates, file_end_date : NameEndDates,
                  file_postfix : NamePostfixes, output_folder : OutputFolders]
    /\ result = Idle
    /\ queue = <<>>
    /\ out = <<>>
    /\ run = NoRun

CallFinderFilename ==
    /\ pc = "start"
    /\ result' = Ok(finder_output_filename(input))
    /\ pc' = "finder"
    /\ UNCHANGED <<input, queue, out, run>>

CallBuildOutputFilename ==
    /\ pc = "finder"
    /\ out' = <<build_output_filename(input)>>
    /\ pc' = "both"
    /\ UNCHANGED <<input, result, queue, run>>

NextFilename == CallFinderFilename \/ CallBuildOutputFilename

SpecFilename == InitFilename /\ [][NextFilename]_vars

(***************************************************************************)
(* C11                                                                     *)
(***************************************************************************)
\* "_" and the fragment, or nothing when the fragment is absent
Underscored(fragment) == IF fragment # None THEN <<"_">> \o fragment[1] ELSE <<>>

\* [_prefix][_date or _start-end][_postfix].csv, the single date first
NameTail(args) ==
    Underscored(args.file_prefix)
        \o (IF args.file_date # None THEN Underscored(args.file_date)
            ELSE IF args.file_start_date # None /\ args.file_end_date # None
            THEN <<"_">> \o args.file_start_date[1] \o <<"-">> \o args.file_end_date[1]
            ELSE <<>>)
        \o Underscored(args.file_postfix) \o DotCsv

\* C11: the finder's inline filename and the sampler's build_output_filename
\* are the output folder joined with <Literal>[_prefix][_date or
\* _start-end][_postfix].csv, the same apart from the literal Matches or
\* Samples, a single date taking precedence over the range; the finder gives
\* Matches_ABC_20240101.csv for prefix ABC and date 20240101.
C11_FilenamesAgreeApartFromLiteral ==
    /\ pc \in {"finder", "both"} =>
          /\ result.val = PathJoin(input.output_folder, Matches \o NameTail(input))
          /\ (input.file_prefix = Some(<<"A", "B", "C">>) /\ input.file_date = Some(Date1)
                /\ input.file_postfix = None /\ input.output_folder = <<"o", "u", "t">>)
                => result.val = <<"o", "u", "t", "/">> \o Matches
                                   \o <<"_", "A", "B", "C", "_">> \o Date1 \o DotCsv
    /\ pc = "both" =>
          /\ out[1] = PathJoin(input.output_folder, Samples \o NameTail(input))
          /\ Len(out[1]) = Len(result.val)
          /\ \E k \in 0..Len(out[1]) :
                /\ SubSeq(out[1], 1, k) = input.output_folder
                      \o (IF k > Len(input.output_folder) THEN <<"/">> ELSE <<>>)
                /\ SubSeq(result.val, 1, k) = SubSeq(out[1], 1, k)
                /\ SubSeq(result.val, k + 1, k + 7) = Matches
                /\ SubSeq(out[1], k + 1, k + 7) = Samples
                /\ SubSeq(result.val, k + 8, Len(result.val)) = SubSeq(out[1], k + 8, Len(out[1]))

\* both names were built with a single date and a range given: the date wins
C11_Witness ==
    /\ pc = "both"
    /\ input.file_prefix = Some(<<"A", "B", "C">>)
    /\ input.file_date = Some(Date1)
    /\ input.file_start_date = Some(Date1)
    /\ input.file_end_date = Some(Date2)
    /\ input.file_postfix = None
    /\ input.output_folder = <<"o", "u", "t">>
    /\ result.val = <<"o", "u", "t", "/">> \o Matches
                       \o <<"_", "A", "B", "C", "_">> \o Date1 \o DotCsv
    /\ out[1] = <<"o", "u", "t", "/">> \o Samples
                   \o <<"_", "A", "B", "C", "_">> \o Date1 \o DotCsv

(***************************************************************************)
(* C12, under SpecSampleFile                                               *)
(***************************************************************************)
\* the data rows as samples, one per row, in row order
RowRecords(reader, col) ==
    [k \in DOMAIN DataRows(reader) |->
        [timestamp |-> RowTime(DataRows(reader)[k], col),
         row |-> TrimLast(DataRows(reader)[k])]]

\* s[i..] can be read off t[j..] left to right, using each element of t at
\* most once
RECURSIVE IsSubsequenceFrom(_, _, _, _)
IsSubsequenceFrom(s, t, i, j) ==
    IF i > Len(s) THEN TRUE
    ELSE IF j > Len(t) THEN FALSE
    ELSE IF s[i] = t[j] THEN IsSubsequenceFrom(s, t, i + 1, j + 1)
    ELSE IsSubsequenceFrom(s, t, i, j + 1)

\* C12: for every delta, positive, zero or negative, the samples sample_file
\* returns hold each data row at most once: they are a subsequence of the data
\* rows, so the first data row, appended when there is no sample yet, is not
\* appended again in the same iteration.
C12_EachRowSampledAtMostOnce ==
    (pc = "done" /\ result.exc = "None")
    => /\ Len(result.val.samples) <= Len(DataRows(input.reader))
       /\ IsSubsequenceFrom(result.val.samples,
                            RowRecords(input.reader, input.timestamp_column), 1, 1)

====
